---- MODULE Spec2Model ----
(***************************************************************************)
(* Model of Spectra's in-place orthogonalisation routines                  *)
(* (include/Spectra/LinAlg/Orthogonalization.h).                           *)
(*                                                                         *)
(* Scalars are complex fixed-point numbers <<re, im>>; the integer x       *)
(* stands for the value x / Scale and every multiplication, division and   *)
(* square root rounds to the nearest representable value, which is how the *)
(* model keeps the rounding of the floating-point scalar type.  A real     *)
(* matrix is one whose imaginary parts are all 0.  A vector is a sequence  *)
(* of scalars (rows 1..n); a matrix is a function from the column indices  *)
(* 0..m-1 (the indices the source uses) to its column vectors.             *)
(*                                                                         *)
(* assert() is modelled as compiled in: a failed assertion ends the call.  *)
(***************************************************************************)
EXTENDS Integers, Sequences, FiniteSets, TLC

\* Resolution of the fixed-point scalars: 1.0 is represented by Scale.
Scale == 1000
\* Largest number of columns of an input matrix.
MaxCols == 3

\* Tolerance of the "within tolerance" comparisons: 2% of 1.0.
Tol == Scale \div 50

----------------------------------------------------------------------------
(* Scalar arithmetic of Matrix::Scalar.                                    *)

Abs(x) == IF x >= 0 THEN x ELSE -x

\* a / b rounded to the nearest integer, b > 0.
RDiv(a, b) == IF a >= 0 THEN (2 * a + b) \div (2 * b)
              ELSE -((2 * (-a) + b) \div (2 * b))

RECURSIVE SqrtSearch(_, _, _)
SqrtSearch(x, lo, hi) ==
    IF lo >= hi THEN lo
    ELSE LET mid == (lo + hi + 1) \div 2
         IN  IF mid * mid <= x THEN SqrtSearch(x, mid, hi)
             ELSE SqrtSearch(x, lo, mid - 1)

\* sqrt(x) rounded to the nearest integer, x >= 0.
RSqrt(x) ==
    LET r == SqrtSearch(x, 0, IF x > 46340 THEN 46340 ELSE x)
    IN  IF x - r * r > r THEN r + 1 ELSE r

Re(z) == z[1]
Im(z) == z[2]
CZero == <<0, 0>>
COne == <<Scale, 0>>
CReal(x) == <<x, 0>>
CConj(z) == <<z[1], -z[2]>>
CAdd(a, b) == <<a[1] + b[1], a[2] + b[2]>>
CSub(a, b) == <<a[1] - b[1], a[2] - b[2]>>
\* Exact product of two scalars, at resolution Scale * Scale.
CMulRaw(a, b) == <<a[1] * b[1] - a[2] * b[2], a[1] * b[2] + a[2] * b[1]>>
CRound(z) == <<RDiv(z[1], Scale), RDiv(z[2], Scale)>>
CMul(a, b) == CRound(CMulRaw(a, b))
\* |z|^2, exact, at resolution Scale * Scale.
Abs2Raw(z) == z[1] * z[1] + z[2] * z[2]
\* a / b for a complex b # 0: a * conj(b) / |b|^2.
CDiv(a, b) ==
    LET nb == RSqrt(Abs2Raw(b))
        raw == CMulRaw(a, CConj(b))
        p == <<RDiv(raw[1], nb), RDiv(raw[2], nb)>>
    IN  <<RDiv(p[1] * Scale, nb), RDiv(p[2] * Scale, nb)>>
\* z / r for a real r # 0.
CDivReal(z, r) ==
    IF r > 0 THEN <<RDiv(z[1] * Scale, r), RDiv(z[2] * Scale, r)>>
    ELSE <<RDiv((-z[1]) * Scale, -r), RDiv((-z[2]) * Scale, -r)>>

----------------------------------------------------------------------------
(* Vector and matrix primitives of the dense linear-algebra library, as    *)
(* the routines use them.                                                  *)

Rows(M) == Len(M[0])
Cols(M) == Cardinality(DOMAIN M)

VSub(u, v) == [i \in DOMAIN u |-> CSub(u[i], v[i])]
VAdd(u, v) == [i \in DOMAIN u |-> CAdd(u[i], v[i])]
\* scalar * vector
VScale(c, u) == [i \in DOMAIN u |-> CMul(c, u[i])]
VZero(n) == [i \in 1..n |-> CZero]

RECURSIVE SumRaw(_, _, _)
\* Sum over the rows i..Len(u) of f(u[i], v[i]), f the exact product.
SumRaw(u, v, i) ==
    IF i > Len(u) THEN CZero
    ELSE CAdd(CMulRaw(u[i], v[i]), SumRaw(u, v, i + 1))

\* u.dot(v): conjugate-linear in its first argument.
Dot(u, v) == CRound(SumRaw([i \in DOMAIN u |-> CConj(u[i])], v, 1))
\* u.transpose() * v: no conjugation.
TDot(u, v) == CRound(SumRaw(u, v, 1))
\* u.squaredNorm(), exact, at resolution Scale * Scale.
SquaredNormRaw(u) == Re(SumRaw([i \in DOMAIN u |-> CConj(u[i])], u, 1))
\* u.norm()
Norm(u) == RSqrt(SquaredNormRaw(u))
\* u.normalize(): divides by the norm, and leaves a zero vector alone.
Normalize(u) ==
    IF SquaredNormRaw(u) > 0
    THEN [i \in DOMAIN u |-> CDivReal(u[i], Norm(u))]
    ELSE u

RECURSIVE ProjSum(_, _, _, _)
\* M.leftCols(cnt) * coef, for the coefficient vector coef[0..cnt-1],
\* accumulated from column i on.
ProjSum(M, coef, cnt, i) ==
    IF i >= cnt THEN VZero(Rows(M))
    ELSE VAdd(VScale(coef[i], M[i]), ProjSum(M, coef, cnt, i + 1))

\* M.leftCols(cnt) * (M.leftCols(cnt).transpose() * M.col(c))
LeftProjection(M, cnt, c) ==
    ProjSum(M, [i \in 0..(cnt - 1) |-> TDot(M[i], M[c])], cnt, 0)

----------------------------------------------------------------------------
(* Householder QR of the dense linear-algebra library: the unblocked       *)
(* in-place factorisation and the product householderQ() * I.              *)

Min(a, b) == IF a <= b THEN a ELSE b

RECURSIVE TailAbs2Raw(_, _)
\* Squared norm of the rows i..Len(x) of x, exact.
TailAbs2Raw(x, i) ==
    IF i > Len(x) THEN 0 ELSE Abs2Raw(x[i]) + TailAbs2Raw(x, i + 1)

\* makeHouseholder on the rows k+1..n of column x: the reflector
\* H = I - tau v v^*, v = (0, .., 0, 1, essential), with H x = beta e_(k+1).
MakeHouseholder(x, k) ==
    LET c0 == x[k + 1]
        tailSqNorm == TailAbs2Raw(x, k + 2)
    IN  IF tailSqNorm = 0 /\ Im(c0) = 0
        THEN [tau |-> CZero, beta |-> Re(c0),
              v |-> [i \in DOMAIN x |-> IF i = k + 1 THEN COne ELSE CZero]]
        ELSE LET nrm == RSqrt(Abs2Raw(c0) + tailSqNorm)
                 beta == IF Re(c0) >= 0 THEN -nrm ELSE nrm
                 d == CSub(c0, CReal(beta))
             IN  [tau |-> CConj(CDivReal(CSub(CReal(beta), c0), beta)),
                  beta |-> beta,
                  v |-> [i \in DOMAIN x |->
                           IF i <= k THEN CZero
                           ELSE IF i = k + 1 THEN COne
                           ELSE CDiv(x[i], d)]]

\* applyHouseholderOnTheLeft to one column y: y - tau * v * (v^* y).
ApplyHouseholder(tau, v, y) == VSub(y, VScale(CMul(tau, Dot(v, y)), v))

RECURSIVE HouseholderLoop(_, _, _)
\* The factorisation loop: column k of qr ends holding R above and on the
\* diagonal and the essential part of v below it.
HouseholderLoop(st, k, size) ==
    IF k >= size THEN st
    ELSE LET h == MakeHouseholder(st.qr[k], k)
             packed == [i \in DOMAIN st.qr[k] |->
                          IF i <= k THEN st.qr[k][i]
                          ELSE IF i = k + 1 THEN CReal(h.beta)
                          ELSE h.v[i]]
         IN  HouseholderLoop(
                 [qr |-> [c \in DOMAIN st.qr |->
                            IF c < k THEN st.qr[c]
                            ELSE IF c = k THEN packed
                            ELSE ApplyHouseholder(h.tau, h.v, st.qr[c])],
                  tau |-> Append(st.tau, h.tau),
                  v |-> Append(st.v, h.v)],
                 k + 1, size)

\* HouseholderQR<Matrix> qr(B)
HouseholderQR(B) ==
    HouseholderLoop([qr |-> B, tau |-> <<>>, v |-> <<>>], 0,
                    Min(Rows(B), Cols(B)))

RECURSIVE HouseholderQTimes(_, _, _)
\* householderQ() * y = H_0 (H_1 (.. H_(size-1) y)), H_i = I - conj(tau_i) v_i v_i^*
HouseholderQTimes(f, y, idx) ==
    IF idx = 0 THEN y
    ELSE HouseholderQTimes(
             f, ApplyHouseholder(CConj(f.tau[idx]), f.v[idx], y), idx - 1)

\* The value of qr.householderQ() * I for I = Identity(nrows, min(nrows, ncols)).
QR_orthogonalisation(B) ==
    LET f == HouseholderQR(B)
        nrows == Rows(B)
        ncols == Min(Rows(B), Cols(B))
    IN  [c \in 0..(ncols - 1) |->
           HouseholderQTimes(
               f, [i \in 1..nrows |-> IF i = c + 1 THEN COne ELSE CZero],
               Len(f.tau))]

----------------------------------------------------------------------------
(* The routines of Orthogonalization.h.                                    *)

\* Mutant: the first assertion admits leftColsToSkip = cols.
assert_leftColsToSkip_offByOne(M, L) == Cols(M) >= L /\ L >= 0

\* Both assertions of assert_leftColsToSkip hold.
assert_leftColsToSkip(M, L) == Cols(M) > L /\ L >= 0

\* Mutant: column 0 is normalised whatever the skip count.
treatFirstCol_always(M, L) ==
    [mat |-> [M EXCEPT ![0] = Normalize(@)], ret |-> IF L = 0 THEN 1 ELSE L]

\* Mutant: the skip count is returned as it came.
treatFirstCol_keepsZero(M, L) ==
    IF L = 0 THEN [mat |-> [M EXCEPT ![0] = Normalize(@)], ret |-> L]
    ELSE [mat |-> M, ret |-> L]

\* The matrix and the value treatFirstCol leaves and returns.
treatFirstCol(M, L) ==
    IF L = 0 THEN [mat |-> [M EXCEPT ![0] = Normalize(@)], ret |-> 1]
    ELSE [mat |-> M, ret |-> L]

\* One pass of the inner loop of MGS_orthogonalisation.
MGS_project(M, kk, jj) ==
    [M EXCEPT ![kk] = VSub(M[kk], VScale(Dot(M[jj], M[kk]), M[jj]))]

\* The normalisation that ends the body of the outer loop of MGS.
MGS_normalize(M, kk) == [M EXCEPT ![kk] = Normalize(@)]

\* The body of the loop of GS_orthogonalisation for column jj.
GS_step(M, jj) ==
    [M EXCEPT ![jj] = Normalize(VSub(M[jj], LeftProjection(M, jj, jj)))]

\* Mutant: GS_orthogonalisation takes its skip count by reference, so the
\* second sweep sees what the first sweep left in it.
SecondSweepArg_byReference(L, local) == local

\* The skip count twice_is_enough_orthogonalisation hands to its second
\* sweep: its own parameter, not the local the first sweep changed.
SecondSweepArg(L, local) == L

\* The batched projection of partial_orthogonalisation.
partial_project(M, L) ==
    [c \in DOMAIN M |->
       IF c < L THEN M[c] ELSE VSub(M[c], LeftProjection(M, L, c))]

\* Mutant: every column of the matrix is normalised.
partial_normalize_all(M, L) == [c \in DOMAIN M |-> Normalize(M[c])]

\* rightCols(rightColToOrtho).colwise().normalize()
partial_normalize(M, L) ==
    [c \in DOMAIN M |-> IF c < L THEN M[c] ELSE Normalize(M[c])]

\* in_output.rightCols(cols - L), re-indexed from 0.
rightCols(M, L) == [c \in 0..(Cols(M) - L - 1) |-> M[c + L]]

\* Mutant: the block is written back from column 0 on.
WriteRightCols_noOffset(M, L, B) ==
    [c \in DOMAIN M |-> IF c \in DOMAIN B THEN B[c] ELSE M[c]]

\* M with the leading columns of its right block (from column L on)
\* replaced by the columns of B.
WriteRightCols(M, L, B) ==
    [c \in DOMAIN M |->
       IF c >= L /\ (c - L) \in DOMAIN B THEN B[c - L] ELSE M[c]]

----------------------------------------------------------------------------
(* The calls.  A caller owns a matrix buffer and a skip count, picks one   *)
(* routine and invokes it; the routine runs to completion.                 *)

VARIABLES
    in_output,       \* the matrix buffer the routine works on
    input,           \* the buffer as it was when the current call began
    routine,         \* the routine the caller invoked
    leftColsToSkip,  \* the skip count the caller passed
    skip,            \* leftColsToSkip of the running GS / MGS / partial frame
    pc,              \* position in the code, or how the call ended
    k,               \* loop variable k of MGS_orthogonalisation
    j,               \* loop variable j of MGS and of GS
    sweep,           \* which of the two GS calls of twice_is_enough runs
    again,           \* the caller has called a second time on this buffer
    calls            \* skip counts GS_orthogonalisation was entered with

vars == <<in_output, input, routine, leftColsToSkip, skip, pc, k, j, sweep,
          again, calls>>

Routines == {"GS", "MGS", "twice", "partial", "JensWehner"}

\* Input columns, entries in fifths: <<re, im>> stands for (re + im i) / 5.
InVecs3 ==
    { << <<3, 0>>, <<4, 0>>, <<0, 0>> >>,
      << <<-4, 0>>, <<3, 0>>, <<0, 0>> >>,
      << <<5, 0>>, <<5, 0>>, <<5, 0>> >>,
      << <<3, 0>>, <<0, 4>>, <<0, 0>> >>,
      << <<4, 0>>, <<0, -3>>, <<0, 0>> >> }
InVecs2 ==
    { << <<3, 0>>, <<4, 0>> >>,
      << <<5, 0>>, <<5, 0>> >>,
      << <<3, 0>>, <<0, 4>> >> }

Fix(x) == x * (Scale \div 5)
ToFixed(M) ==
    [c \in DOMAIN M |-> [i \in DOMAIN M[c] |-> <<Fix(M[c][i][1]), Fix(M[c][i][2])>>]]

\* Where a call of the routine starts.
Entry(r) ==
    CASE r \in {"GS", "twice"} -> "GS_assert"
      [] r = "MGS" -> "MGS_assert"
      [] r = "partial" -> "partial_assert"
      [] r = "JensWehner" -> "JW_assert"

Init ==
    \E V \in {InVecs2, InVecs3} : \E m \in 1..MaxCols :
    \E M \in [0..(m - 1) -> V] : \E r \in Routines : \E L \in (-1)..m :
        /\ in_output = ToFixed(M)
        /\ input = ToFixed(M)
        /\ routine = r
        /\ leftColsToSkip = L
        /\ skip = L
        /\ pc = Entry(r)
        /\ k = 0
        /\ j = 0
        /\ sweep = 1
        /\ again = FALSE
        /\ calls = <<>>

\* Where the code goes on after the assertions of the frame at `at` hold.
AfterAssert(at) ==
    CASE at = "GS_assert" -> "GS_first"
      [] at = "MGS_assert" -> "MGS_first"
      [] at = "partial_assert" -> "partial_body"
      [] at = "JW_assert" -> "partial_assert"

\* Where partial_orthogonalisation returns to.
PartialReturn == IF routine = "JensWehner" THEN "JW_qr" ELSE "done"

\* assert_leftColsToSkip(in_output, leftColsToSkip), the first statement of
\* GS, MGS, partial and JensWehner.
AssertLeftColsToSkip ==
    /\ pc \in {"GS_assert", "MGS_assert", "partial_assert", "JW_assert"}
    /\ pc' = IF assert_leftColsToSkip(in_output, skip)
             THEN AfterAssert(pc) ELSE "precondition_violation"
    /\ calls' = IF pc = "GS_assert" THEN Append(calls, skip) ELSE calls
    /\ UNCHANGED <<in_output, input, routine, leftColsToSkip, skip, k, j,
                   sweep, again>>

\* leftColsToSkip = treatFirstCol(in_output, leftColsToSkip), and the
\* initialisation of the loop that follows it.
TreatFirstCol ==
    /\ pc \in {"GS_first", "MGS_first"}
    /\ LET r == treatFirstCol(in_output, skip)
       IN  /\ in_output' = r.mat
           /\ skip' = r.ret
           /\ IF pc = "GS_first"
              THEN pc' = "GS_loop" /\ j' = r.ret /\ k' = k
              ELSE pc' = "MGS_loop" /\ k' = r.ret /\ j' = 0
    /\ UNCHANGED <<input, routine, leftColsToSkip, sweep, again, calls>>

GS_iterate ==
    /\ pc = "GS_loop"
    /\ j < Cols(in_output)
    /\ in_output' = GS_step(in_output, j)
    /\ j' = j + 1
    /\ UNCHANGED <<input, routine, leftColsToSkip, skip, pc, k, sweep, again,
                   calls>>

\* GS_orthogonalisation returns: to twice_is_enough_orthogonalisation, which
\* calls it a second time, or to the caller.
GS_return ==
    /\ pc = "GS_loop"
    /\ j >= Cols(in_output)
    /\ IF routine = "twice" /\ sweep = 1
       THEN /\ sweep' = 2
            /\ skip' = SecondSweepArg(leftColsToSkip, skip)
            /\ pc' = "GS_assert"
       ELSE /\ pc' = "done"
            /\ UNCHANGED <<sweep, skip>>
    /\ j' = 0
    /\ UNCHANGED <<in_output, input, routine, leftColsToSkip, k, again, calls>>

\* Mutant: the coefficient is taken from the column as it was on entry,
\* the classical Gram-Schmidt recurrence.
MGS_project_step_classical ==
    /\ pc = "MGS_loop"
    /\ k < Cols(in_output)
    /\ j < k
    /\ in_output' = [in_output EXCEPT ![k] =
           VSub(@, VScale(Dot(in_output[j], input[k]), in_output[j]))]
    /\ j' = j + 1
    /\ UNCHANGED <<input, routine, leftColsToSkip, skip, pc, k, sweep, again,
                   calls>>

MGS_project_step ==
    /\ pc = "MGS_loop"
    /\ k < Cols(in_output)
    /\ j < k
    /\ in_output' = MGS_project(in_output, k, j)
    /\ j' = j + 1
    /\ UNCHANGED <<input, routine, leftColsToSkip, skip, pc, k, sweep, again,
                   calls>>

MGS_normalize_step ==
    /\ pc = "MGS_loop"
    /\ k < Cols(in_output)
    /\ j >= k
    /\ in_output' = MGS_normalize(in_output, k)
    /\ k' = k + 1
    /\ j' = 0
    /\ UNCHANGED <<input, routine, leftColsToSkip, skip, pc, sweep, again,
                   calls>>

MGS_return ==
    /\ pc = "MGS_loop"
    /\ k >= Cols(in_output)
    /\ pc' = "done"
    /\ UNCHANGED <<in_output, input, routine, leftColsToSkip, skip, k, j,
                   sweep, again, calls>>

\* Mutant: no early return, the projection runs with an empty left block.
Partial_return_missing ==
    /\ pc = "partial_body"
    /\ skip = 0
    /\ in_output' = partial_project(in_output, skip)
    /\ pc' = "partial_norm"
    /\ UNCHANGED <<input, routine, leftColsToSkip, skip, k, j, sweep, again,
                   calls>>

\* partial_orthogonalisation with leftColsToSkip = 0: the early return.
Partial_return ==
    /\ pc = "partial_body"
    /\ skip = 0
    /\ pc' = PartialReturn
    /\ UNCHANGED <<in_output, input, routine, leftColsToSkip, skip, k, j,
                   sweep, again, calls>>

Partial_project ==
    /\ pc = "partial_body"
    /\ skip # 0
    /\ in_output' = partial_project(in_output, skip)
    /\ pc' = "partial_norm"
    /\ UNCHANGED <<input, routine, leftColsToSkip, skip, k, j, sweep, again,
                   calls>>

Partial_normalize ==
    /\ pc = "partial_norm"
    /\ in_output' = partial_normalize(in_output, skip)
    /\ pc' = PartialReturn
    /\ UNCHANGED <<input, routine, leftColsToSkip, skip, k, j, sweep, again,
                   calls>>

\* What heap memory read past the end of the n x n product may hold.
JunkVecs(n) == {VZero(n), [i \in 1..n |-> <<Scale, Scale>>]}

\* QR_orthogonalisation(right_cols) in JensWehner_orthogonalisation.
\* right_cols is a view of the right block, so the factorisation and the
\* assignment of Q * I work on the block's own memory.  With more columns
\* than rows in the block, Q * I has fewer columns than the view: the
\* assignment fails the library's size assertion (the block is left holding
\* the packed factorisation) or, with that assertion compiled out, fills
\* the surplus columns with whatever it reads past the end of the product.
JW_QR ==
    /\ pc = "JW_qr"
    /\ LET B == rightCols(in_output, leftColsToSkip)
           Q == QR_orthogonalisation(B)
       IN  IF Cols(Q) = Cols(B)
           THEN /\ in_output' = WriteRightCols(in_output, leftColsToSkip, Q)
                /\ pc' = "JW_write"
           ELSE \E abort \in BOOLEAN, junk \in JunkVecs(Rows(B)) :
                  IF abort
                  THEN /\ in_output' = WriteRightCols(in_output, leftColsToSkip,
                                                      HouseholderQR(B).qr)
                       /\ pc' = "eigen_assert"
                  ELSE /\ in_output' =
                            WriteRightCols(in_output, leftColsToSkip,
                                [c \in DOMAIN B |->
                                   IF c \in DOMAIN Q THEN Q[c] ELSE junk])
                       /\ pc' = "JW_write"
    /\ UNCHANGED <<input, routine, leftColsToSkip, skip, k, j, sweep, again,
                   calls>>

\* in_output.rightCols(rightColToOrtho) = right_cols
JW_writeback ==
    /\ pc = "JW_write"
    /\ in_output' = WriteRightCols(in_output, leftColsToSkip,
                                   rightCols(in_output, leftColsToSkip))
    /\ pc' = "done"
    /\ UNCHANGED <<input, routine, leftColsToSkip, skip, k, j, sweep, again,
                   calls>>

\* The caller applies twice_is_enough_orthogonalisation once more, with the
\* same skip count, to the buffer the previous call left.
Reapply ==
    /\ pc = "done"
    /\ routine = "twice"
    /\ ~again
    /\ again' = TRUE
    /\ input' = in_output
    /\ skip' = leftColsToSkip
    /\ pc' = Entry(routine)
    /\ sweep' = 1
    /\ calls' = <<>>
    /\ j' = 0
    /\ UNCHANGED <<in_output, routine, leftColsToSkip, k>>

Next ==
    \/ AssertLeftColsToSkip
    \/ TreatFirstCol
    \/ GS_iterate
    \/ GS_return
    \/ MGS_project_step
    \/ MGS_normalize_step
    \/ MGS_return
    \/ Partial_return
    \/ Partial_project
    \/ Partial_normalize
    \/ JW_QR
    \/ JW_writeback
    \/ Reapply

Spec == Init /\ [][Next]_vars

----------------------------------------------------------------------------
(* Vocabulary of the properties.                                           *)

Terminated == pc \in {"done", "precondition_violation", "eigen_assert"}
ValidSkip == 0 <= leftColsToSkip /\ leftColsToSkip < Cols(input)

\* |a - b| <= Tol in both components.
CNear(a, b) == Abs(a[1] - b[1]) <= Tol /\ Abs(a[2] - b[2]) <= Tol

\* The two matrices agree entry by entry within the tolerance.
Close(A, B) ==
    \A c \in DOMAIN A : \A i \in DOMAIN A[c] : CNear(A[c][i], B[c][i])

\* The columns in S are mutually orthonormal within the tolerance: the
\* inner product of two different columns is 0, of a column with itself 1.
OrthonormalCols(M, S) ==
    \A a \in S, b \in S :
        CNear(Dot(M[a], M[b]), IF a = b THEN COne ELSE CZero)

Orthonormal(M) == OrthonormalCols(M, DOMAIN M)

IsReal(M) == \A c \in DOMAIN M : \A i \in DOMAIN M[c] : Im(M[c][i]) = 0

\* The input matrix in fifths, as it was drawn.
Unfix(M) ==
    [c \in DOMAIN M |-> [i \in DOMAIN M[c] |->
        <<M[c][i][1] \div (Scale \div 5), M[c][i][2] \div (Scale \div 5)>>]]

RECURSIVE DetRaw(_, _, _)
RECURSIVE DetSum(_, _, _, _)
\* Laplace expansion along column c of the minor of M on the rows `rows`.
DetSum(M, rows, c, i) ==
    IF i > Len(rows) THEN <<0, 0>>
    ELSE LET rest == [x \in 1..(Len(rows) - 1) |->
                        IF x < i THEN rows[x] ELSE rows[x + 1]]
             term == CMulRaw(M[c][rows[i]], DetRaw(M, rest, c + 1))
         IN  CAdd(IF i % 2 = 1 THEN term ELSE <<-term[1], -term[2]>>,
                  DetSum(M, rows, c, i + 1))
DetRaw(M, rows, c) ==
    IF Len(rows) = 0 THEN <<1, 0>> ELSE DetSum(M, rows, c, 1)

\* The columns of the matrix (entries in fifths) are linearly independent:
\* some square minor on all its columns has a nonzero determinant.
LinIndep(M) ==
    /\ Cols(M) <= Rows(M)
    /\ \E rows \in [1..Cols(M) -> 1..Rows(M)] :
          /\ \A x \in 1..(Cols(M) - 1) : rows[x] < rows[x + 1]
          /\ DetRaw(M, rows, 0) # <<0, 0>>

\* Checks of the arithmetic of the model on inputs with linearly independent
\* columns: the conjugating recurrences and the QR step deliver orthonormal
\* columns, and so does GS on real matrices.
MGSOrthonormalises ==
    (routine = "MGS" /\ pc = "done" /\ leftColsToSkip = 0
        /\ LinIndep(Unfix(input)))
    => Orthonormal(in_output)
GSOrthonormalisesReal ==
    (routine = "GS" /\ pc = "done" /\ leftColsToSkip = 0
        /\ LinIndep(Unfix(input)) /\ IsReal(input))
    => Orthonormal(in_output)
QROrthonormalises ==
    (routine = "JensWehner" /\ pc = "done"
        /\ LinIndep(Unfix(input)))
    => OrthonormalCols(in_output, leftColsToSkip..(Cols(input) - 1))

\* twice-is-enough returns a real orthonormal input within the tolerance.
TwiceIdempotentReal ==
    (routine = "twice" /\ pc = "done" /\ ValidSkip /\ IsReal(input)
        /\ Orthonormal(input))
    => Close(in_output, input)

----------------------------------------------------------------------------
(* The claims.                                                             *)

LeftColsUnchanged ==
    \A c \in DOMAIN in_output : c < leftColsToSkip => in_output[c] = input[c]
SomeColumnChanged == \E c \in DOMAIN in_output : in_output[c] # input[c]

\* C1: partial_orthogonalisation(A, L) with 1 <= L < m never writes a column
\* below L: at every point of the call columns [0, L) are the input's.
C1_PartialLeavesLeftCols ==
    (routine = "partial" /\ ValidSkip /\ leftColsToSkip >= 1)
    => LeftColsUnchanged
\* A call of partial_orthogonalisation with L >= 1 that returned having
\* changed the right block, beside a left column that is not of unit norm.
C1_Witness ==
    /\ routine = "partial" /\ pc = "done" /\ leftColsToSkip >= 1
    /\ SomeColumnChanged
    /\ Normalize(input[0]) # input[0]

\* C2: JensWehner_orthogonalisation(A, L) with 0 <= L < m leaves columns
\* [0, L) as they were, through the partial orthogonalisation, the QR step
\* on the sub-block of columns [L, m) and the write-back of that block.
C2_JensWehnerLeavesLeftCols ==
    (routine = "JensWehner" /\ ValidSkip) => LeftColsUnchanged
\* A JensWehner call with L >= 1 past its write-back, the right block
\* changed, beside a left column that is not of unit norm.
C2_Witness ==
    /\ routine = "JensWehner" /\ pc = "done" /\ leftColsToSkip >= 1
    /\ SomeColumnChanged
    /\ Normalize(input[0]) # input[0]

C4_PartialZeroIsNoOp ==
    (routine = "partial" /\ leftColsToSkip = 0)
    => /\ in_output = input
       /\ pc \in {"partial_assert", "partial_body", "done"}
\* partial_orthogonalisation(A, 0) returned on a matrix whose columns a
\* normalisation would have changed.
C4_Witness ==
    /\ routine = "partial" /\ leftColsToSkip = 0 /\ pc = "done"
    /\ \A c \in DOMAIN input : Normalize(input[c]) # input[c]

\* C5: GS, MGS and twice-is-enough with 0 <= L < m never write a column
\* below L, in either sweep of twice-is-enough: columns [0, L) stay the
\* input's at every point of the call.
C5_GramSchmidtLeavesLeftCols ==
    (routine \in {"GS", "MGS", "twice"} /\ ValidSkip) => LeftColsUnchanged
\* twice-is-enough with L >= 1 at the end of its second sweep, the right
\* columns changed, beside a left column that is not of unit norm.
C5_Witness ==
    /\ routine = "twice" /\ sweep = 2 /\ pc = "done" /\ leftColsToSkip >= 1
    /\ SomeColumnChanged
    /\ Normalize(input[0]) # input[0]

\* C6: after GS_orthogonalisation(A, 0) or MGS_orthogonalisation(A, 0) on a
\* real or complex matrix all columns are mutually orthonormal within the
\* tolerance.  Stated for the matrices with linearly independent columns,
\* where a Gram-Schmidt process can deliver it.
C6_GramSchmidtOrthonormal ==
    (routine \in {"GS", "MGS"} /\ pc = "done" /\ leftColsToSkip = 0
        /\ LinIndep(Unfix(input)))
    => Orthonormal(in_output)

\* C7: twice_is_enough_orthogonalisation enters GS_orthogonalisation exactly
\* twice, both times with the caller's skip count, and on a matrix whose
\* columns are already mutually orthonormal it returns the input within the
\* tolerance, on the first call and on the call after it.
C7_TwiceIsIdempotent ==
    (routine = "twice" /\ pc = "done" /\ ValidSkip)
    => /\ calls = <<leftColsToSkip, leftColsToSkip>>
       /\ Orthonormal(input) => Close(in_output, input)

\* C8: MGS_orthogonalisation processes the columns in ascending order from
\* the effective skip index; for column k it subtracts the projections onto
\* columns j = 0, 1, .., k-1 one at a time in that order, each coefficient
\* taken from column k as the earlier subtractions left it and from column
\* j; it normalises column k once, after the last projection, moves on to
\* k + 1, and writes no column other than the current k.
C8_MGSOrder ==
    [][/\ pc = "MGS_first" =>
            /\ k' = (IF skip = 0 THEN 1 ELSE skip)
            /\ j' = 0
       /\ (pc = "MGS_loop" /\ k < Cols(in_output)) =>
            /\ \A c \in DOMAIN in_output :
                  c # k => in_output'[c] = in_output[c]
            /\ IF j < k
               THEN /\ k' = k
                    /\ j' = j + 1
                    /\ in_output'[k] =
                          VSub(in_output[k],
                               VScale(Dot(in_output[j], in_output[k]),
                                      in_output[j]))
               ELSE /\ k' = k + 1
                    /\ j' = 0
                    /\ in_output'[k] = Normalize(in_output[k])]_vars
\* MGS about to take the coefficient for j = 1 from a column k = 2 that the
\* projection onto column 0 has already changed.
C8_Witness ==
    /\ routine = "MGS" /\ pc = "MGS_loop" /\ k = 2 /\ j = 1
    /\ in_output[2] # input[2]

C10_CheckBeforeWrite ==
    [][(pc' = "precondition_violation" /\ pc # "precondition_violation") =>
          /\ in_output = input
          /\ in_output' = input
          /\ ~again
          /\ ~(routine = "twice" /\ sweep = 2)
          /\ ~(routine = "JensWehner" /\ pc = "partial_assert")]_vars
\* JensWehner rejected at its own check, the matrix untouched although its
\* first column is not of unit norm.
C10_Witness ==
    /\ routine = "JensWehner" /\ pc = "precondition_violation"
    /\ leftColsToSkip = Cols(input)
    /\ Normalize(input[0]) # input[0]

====
